---------------------------- MODULE Spec2Model ----------------------------
(***************************************************************************)
(* Model of the two request handlers of the repository:                    *)
(*   src/UploadFunction.py  parse_multipart_form_data, log_upload_metadata *)
(*                          and lambda_handler (the upload handler)        *)
(*   src/PollyFunction.py   lambda_handler (the speech handler)            *)
(*                                                                         *)
(* bytes and str values are sequences of integers: a bytes value is a      *)
(* sequence of bytes 0..255, a str value a sequence of code points.        *)
(***************************************************************************)
EXTENDS Integers, Sequences, FiniteSets, TLC

---------------------------------------------------------------------------
(* Byte values of the literals of the source.                              *)

CR == 13
LF == 10
QUOTE == 34
SEMICOLON == 59

\* b"\r\n"
CRLF == <<CR, LF>>
\* b"\r\n\r\n"
BlankLine == <<CR, LF, CR, LF>>
\* b"--"
DashDash == <<45, 45>>
\* "boundary="
BoundaryLit == <<98, 111, 117, 110, 100, 97, 114, 121, 61>>
\* 'Content-Disposition: form-data; name="'
NameLit == <<67, 111, 110, 116, 101, 110, 116, 45, 68, 105, 115, 112, 111,
             115, 105, 116, 105, 111, 110, 58, 32, 102, 111, 114, 109, 45,
             100, 97, 116, 97, 59, 32, 110, 97, 109, 101, 61, 34>>
\* '; filename="'
FilenameLit == <<59, 32, 102, 105, 108, 101, 110, 97, 109, 101, 61, 34>>

---------------------------------------------------------------------------
(* bytes and str primitives used by the decoder.                           *)

\* s[i:j] of Python for 1-based inclusive indices, empty when out of range.
Slice(s, i, j) == IF i > j THEN <<>> ELSE SubSeq(s, i, j)

\* Whether the literal lit stands in s at index i.
LitAt(s, lit, i) ==
    /\ i >= 1
    /\ i + Len(lit) - 1 <= Len(s)
    /\ s[i] = lit[1]
    /\ SubSeq(s, i, i + Len(lit) - 1) = lit

\* s.find(sep, i): the first index >= i at which sep occurs in s, 0 if none.
Find(s, sep, i) ==
    LET hits == {j \in i..(Len(s) - Len(sep) + 1) : LitAt(s, sep, j)}
    IN  IF hits = {} THEN 0
        ELSE CHOOSE j \in hits : \A k \in hits : j <= k

\* bytes.split(sep): the fragments between the non-overlapping occurrences
\* of sep, scanned from the left.
RECURSIVE Split(_, _)
Split(s, sep) ==
    LET i == Find(s, sep, 1)
    IN  IF i = 0 THEN <<s>>
        ELSE <<Slice(s, 1, i - 1)>> \o Split(Slice(s, i + Len(sep), Len(s)), sep)

\* bytes.split(sep, 1): at most one split, at the first occurrence.
SplitOnce(s, sep) ==
    LET i == Find(s, sep, 1)
    IN  IF i = 0 THEN <<s>>
        ELSE <<Slice(s, 1, i - 1), Slice(s, i + Len(sep), Len(s))>>

\* A variant of rstrip that removes one trailing CRLF pair only.
RStripOnePair(s) ==
    IF Len(s) >= 2 /\ s[Len(s) - 1] = CR /\ s[Len(s)] = LF
    THEN Slice(s, 1, Len(s) - 2) ELSE s

\* bytes.rstrip(b"\r\n"): removes every trailing byte that is CR or LF.
RECURSIVE RStrip(_)
RStrip(s) ==
    IF Len(s) > 0 /\ s[Len(s)] \in {CR, LF} THEN RStrip(Slice(s, 1, Len(s) - 1))
    ELSE s

IsCont(b) == b >= 128 /\ b <= 191

\* The bytes of the UTF-8 sequence that starts at b[i]: 0 when b[i] starts
\* none, or the sequence is cut short, overlong, a surrogate or past U+10FFFF.
SeqLen(b, i) ==
    LET b0 == b[i]
        n  == IF b0 < 128 THEN 1
              ELSE IF b0 >= 194 /\ b0 <= 223 THEN 2
              ELSE IF b0 >= 224 /\ b0 <= 239 THEN 3
              ELSE IF b0 >= 240 /\ b0 <= 244 THEN 4
              ELSE 0
    IN  IF /\ n > 0
           /\ i + n - 1 <= Len(b)
           /\ \A k \in 1..(n - 1) : IsCont(b[i + k])
           /\ (b0 = 224 => b[i + 1] >= 160)
           /\ (b0 = 237 => b[i + 1] <= 159)
           /\ (b0 = 240 => b[i + 1] >= 144)
           /\ (b0 = 244 => b[i + 1] <= 143)
        THEN n ELSE 0

\* The code point of the n-byte sequence at b[i].
CodePoint(b, i, n) ==
    IF n = 1 THEN b[i]
    ELSE IF n = 2 THEN (b[i] - 192) * 64 + (b[i + 1] - 128)
    ELSE IF n = 3 THEN (b[i] - 224) * 4096 + (b[i + 1] - 128) * 64
                       + (b[i + 2] - 128)
    ELSE (b[i] - 240) * 262144 + (b[i + 1] - 128) * 4096
         + (b[i + 2] - 128) * 64 + (b[i + 3] - 128)

\* Whether b is well-formed UTF-8: every byte that is no continuation byte
\* starts a sequence, and every continuation byte lies in one.
Utf8Valid(b) ==
    \A i \in DOMAIN b :
        IF IsCont(b[i])
        THEN \E j \in (i - 3)..(i - 1) :
                j >= 1 /\ ~IsCont(b[j]) /\ SeqLen(b, j) > i - j
        ELSE SeqLen(b, i) > 0

\* The code points of well-formed UTF-8.  A long value is read in two
\* halves cut at the start of a sequence.
RECURSIVE Utf8Chars(_)
Utf8Chars(b) ==
    IF b = <<>> THEN <<>>
    ELSE IF Len(b) <= 8
    THEN <<CodePoint(b, 1, SeqLen(b, 1))>>
            \o Utf8Chars(Slice(b, SeqLen(b, 1) + 1, Len(b)))
    ELSE LET mid == Len(b) \div 2
             cuts == {m \in mid..(mid + 3) : ~IsCont(b[m])}
             cut == CHOOSE m \in cuts : \A k \in cuts : m <= k
         IN  Utf8Chars(Slice(b, 1, cut - 1)) \o Utf8Chars(Slice(b, cut, Len(b)))

\* bytes.decode(): strict UTF-8. [ok, str]; ok = FALSE is UnicodeDecodeError.
decode(b) ==
    IF Utf8Valid(b) THEN [ok |-> TRUE, str |-> Utf8Chars(b)]
    ELSE [ok |-> FALSE, str |-> <<>>]

\* The UTF-8 bytes of one code point.
EncodeOne(c) ==
    IF c < 128 THEN <<c>>
    ELSE IF c < 2048 THEN <<192 + (c \div 64), 128 + (c % 64)>>
    ELSE IF c < 65536
         THEN <<224 + (c \div 4096), 128 + ((c \div 64) % 64), 128 + (c % 64)>>
    ELSE <<240 + (c \div 262144), 128 + ((c \div 4096) % 64),
           128 + ((c \div 64) % 64), 128 + (c % 64)>>

\* The UTF-8 bytes of s[lo..hi], a str without surrogates, half by half.
RECURSIVE EncodeRange(_, _, _)
EncodeRange(s, lo, hi) ==
    IF lo > hi THEN <<>>
    ELSE IF lo = hi THEN EncodeOne(s[lo])
    ELSE EncodeRange(s, lo, (lo + hi) \div 2)
            \o EncodeRange(s, (lo + hi) \div 2 + 1, hi)

\* str.encode(): UTF-8. ok = FALSE is UnicodeEncodeError (a lone surrogate).
encode(s) ==
    IF \E i \in DOMAIN s : s[i] >= 55296 /\ s[i] <= 57343
    THEN [ok |-> FALSE, bytes |-> <<>>]
    ELSE [ok |-> TRUE, bytes |-> EncodeRange(s, 1, Len(s))]

\* The end of the greedy run [^c]+ starting at i: the first index >= i that
\* holds c, or Len(s) + 1 when there is none.
RECURSIVE RunEnd(_, _, _)
RunEnd(s, i, c) ==
    IF i > Len(s) \/ s[i] = c THEN i ELSE RunEnd(s, i + 1, c)

---------------------------------------------------------------------------
(* re.search(r"boundary=([^;]+)", content_type)                            *)

RECURSIVE BoundarySearchFrom(_, _)
BoundarySearchFrom(ct, i) ==
    LET p == Find(ct, BoundaryLit, i)
        a == p + Len(BoundaryLit)
        e == RunEnd(ct, a, SEMICOLON)
    IN  IF p = 0 THEN [matched |-> FALSE, group1 |-> <<>>]
        ELSE IF e > a THEN [matched |-> TRUE, group1 |-> Slice(ct, a, e - 1)]
        ELSE BoundarySearchFrom(ct, p + 1)

BoundarySearch(ct) == BoundarySearchFrom(ct, 1)

(* re.search(r'Content-Disposition: form-data; name="([^"]+)"              *)
(*             (?:; filename="([^"]+)")?', part_headers)                   *)
(* group2 is None (hasGroup2 = FALSE) when the optional group did not      *)
(* take part in the match.                                                 *)

NoDisposition ==
    [matched |-> FALSE, group1 |-> <<>>, hasGroup2 |-> FALSE, group2 |-> <<>>]

RECURSIVE DispositionSearchFrom(_, _)
DispositionSearchFrom(h, i) ==
    LET p  == Find(h, NameLit, i)
        a  == p + Len(NameLit)
        e  == RunEnd(h, a, QUOTE)
        f  == e + 1 + Len(FilenameLit)
        g  == RunEnd(h, f, QUOTE)
        fn == LitAt(h, FilenameLit, e + 1) /\ g > f /\ g <= Len(h)
    IN  IF p = 0 THEN NoDisposition
        ELSE IF e > a /\ e <= Len(h)
             THEN [matched |-> TRUE, group1 |-> Slice(h, a, e - 1),
                   hasGroup2 |-> fn,
                   group2 |-> IF fn THEN Slice(h, f, g - 1) ELSE <<>>]
        ELSE DispositionSearchFrom(h, p + 1)

DispositionSearch(h) == DispositionSearchFrom(h, 1)

---------------------------------------------------------------------------
(* parse_multipart_form_data                                               *)

\* A variant of the assignment that keeps an entry already there.
PutKeepFirst(fields, name, value) ==
    [n \in (DOMAIN fields) \cup {name} |->
        IF n \in DOMAIN fields THEN fields[n] ELSE value]

\* fields[name] = value
Put(fields, name, value) ==
    [n \in (DOMAIN fields) \cup {name} |->
        IF n = name THEN value ELSE fields[n]]

\* A decoded file field {'filename': ..., 'content': ...} and a plain str.
FileValue(filename, content) ==
    [kind |-> "file", filename |-> filename, content |-> content]
StrValue(s) == [kind |-> "str", filename |-> <<>>, content |-> s]

\* The body of the try block for one part: [raised, fields].
PartBody(part, fields) ==
    LET sp == SplitOnce(part, BlankLine)
    IN  IF Len(sp) # 2 THEN [raised |-> TRUE, fields |-> fields]
        ELSE
          LET part_headers == decode(sp[1])
              part_body == sp[2]
              m == DispositionSearch(part_headers.str)
              text == decode(RStrip(part_body))
          IN  IF ~part_headers.ok THEN [raised |-> TRUE, fields |-> fields]
              ELSE IF ~m.matched THEN [raised |-> FALSE, fields |-> fields]
              ELSE IF m.hasGroup2
                   THEN [raised |-> FALSE,
                         fields |-> Put(fields, m.group1,
                                        FileValue(m.group2, RStrip(part_body)))]
              ELSE IF ~text.ok THEN [raised |-> TRUE, fields |-> fields]
              ELSE [raised |-> FALSE,
                    fields |-> Put(fields, m.group1, StrValue(text.str))]

\* One iteration without the try/except: the exception leaves the loop.
RECURSIVE LoopNoExcept(_, _, _)
LoopNoExcept(parts, i, fields) ==
    IF i > Len(parts) THEN [raised |-> FALSE, fields |-> fields]
    ELSE LET r == PartBody(parts[i], fields)
         IN  IF r.raised THEN [raised |-> TRUE, fields |-> <<>>]
             ELSE LoopNoExcept(parts, i + 1, r.fields)

\* for part in parts: try ... except Exception: continue
RECURSIVE Loop(_, _, _)
Loop(parts, i, fields) ==
    IF i > Len(parts) THEN [raised |-> FALSE, fields |-> fields]
    ELSE Loop(parts, i + 1, PartBody(parts[i], fields).fields)

\* A variant of the slice that keeps the closing fragment: parts[1:]
InnerKeepLast(parts) == Slice(parts, 2, Len(parts))

\* parts[1:-1]
Inner(parts) == Slice(parts, 2, Len(parts) - 1)

\* A variant that splits on b"--" alone when the header names no boundary.
ParseWithoutRaise(body, content_type) ==
    LET match == BoundarySearch(content_type)
        encoded == encode(match.group1)
        parts == Split(body, DashDash \o encoded.bytes)
        r == Loop(Inner(parts), 1, <<>>)
    IN  IF ~encoded.ok
        THEN [raised |-> TRUE, error |-> "UnicodeEncodeError",
              fields |-> <<>>]
        ELSE [raised |-> r.raised, error |-> "", fields |-> r.fields]

\* [raised, error, fields]: raised = TRUE is an exception that leaves the
\* function, and error its class: the ValueError of line 19, or the
\* UnicodeEncodeError of boundary.encode() in line 22 for a boundary that
\* holds a lone surrogate.  Otherwise the loop ends and fields is returned.
parse_multipart_form_data(body, content_type) ==
    LET match == BoundarySearch(content_type)
        boundary == match.group1
        encoded == encode(boundary)
        parts == Split(body, DashDash \o encoded.bytes)
        r == Loop(Inner(parts), 1, <<>>)
    IN  IF ~match.matched
        THEN [raised |-> TRUE, error |-> "ValueError", fields |-> <<>>]
        ELSE IF ~encoded.ok
        THEN [raised |-> TRUE, error |-> "UnicodeEncodeError",
              fields |-> <<>>]
        ELSE [raised |-> r.raised, error |-> "", fields |-> r.fields]

---------------------------------------------------------------------------
(* The requests the decoder is applied to.  A body is a preamble, then     *)
(* '--B' and a part for each part, then a closing fragment.  Beside its    *)
(* bytes each part records what it was written to be: the field name and   *)
(* the filename attribute of its header block, whether the header block    *)
(* and the payload are valid UTF-8, and whether the blank line is there.   *)

MaxParts == 2
MaxPayloadLen == 3

BoundedSeq(S, n) == UNION {[1..k -> S] : k \in 0..n}

\* "--B"
Delimiter == <<45, 45, 66>>

\* 'Content-Disposition: form-data; name="file"; filename="a.mp3"\r\n
\*  Content-Type: audio/mpeg'
HdrFile == <<67, 111, 110, 116, 101, 110, 116, 45, 68, 105, 115, 112, 111,
             115, 105, 116, 105, 111, 110, 58, 32, 102, 111, 114, 109, 45,
             100, 97, 116, 97, 59, 32, 110, 97, 109, 101, 61, 34, 102, 105,
             108, 101, 34, 59, 32, 102, 105, 108, 101, 110, 97, 109, 101,
             61, 34, 97, 46, 109, 112, 51, 34, 13, 10, 67, 111, 110, 116,
             101, 110, 116, 45, 84, 121, 112, 101, 58, 32, 97, 117, 100,
             105, 111, 47, 109, 112, 101, 103>>
\* 'Content-Disposition: form-data; name="note"'
HdrNote == <<67, 111, 110, 116, 101, 110, 116, 45, 68, 105, 115, 112, 111,
             115, 105, 116, 105, 111, 110, 58, 32, 102, 111, 114, 109, 45,
             100, 97, 116, 97, 59, 32, 110, 97, 109, 101, 61, 34, 110, 111,
             116, 101, 34>>
\* 'Content-Disposition: form-data; name="file"'
HdrFilePlain == <<67, 111, 110, 116, 101, 110, 116, 45, 68, 105, 115, 112,
                  111, 115, 105, 116, 105, 111, 110, 58, 32, 102, 111, 114,
                  109, 45, 100, 97, 116, 97, 59, 32, 110, 97, 109, 101, 61,
                  34, 102, 105, 108, 101, 34>>
\* 'Content-Type: text/plain'
HdrOther == <<67, 111, 110, 116, 101, 110, 116, 45, 84, 121, 112, 101, 58,
              32, 116, 101, 120, 116, 47, 112, 108, 97, 105, 110>>
\* 'Content-Disposition: form-data; name="note"\r\nX-Tag: \xff'
HdrUndecodable == <<67, 111, 110, 116, 101, 110, 116, 45, 68, 105, 115, 112,
                    111, 115, 105, 116, 105, 111, 110, 58, 32, 102, 111,
                    114, 109, 45, 100, 97, 116, 97, 59, 32, 110, 97, 109,
                    101, 61, 34, 110, 111, 116, 101, 34, 13, 10, 88, 45, 84,
                    97, 103, 58, 32, 255>>
\* 'Content-Disposition: form-data; name="file"; size="1"; filename="a.mp3"'
HdrParam == <<67, 111, 110, 116, 101, 110, 116, 45, 68, 105, 115, 112, 111,
              115, 105, 116, 105, 111, 110, 58, 32, 102, 111, 114, 109, 45,
              100, 97, 116, 97, 59, 32, 110, 97, 109, 101, 61, 34, 102, 105,
              108, 101, 34, 59, 32, 115, 105, 122, 101, 61, 34, 49, 34, 59,
              32, 102, 105, 108, 101, 110, 97, 109, 101, 61, 34, 97, 46,
              109, 112, 51, 34>>

\* "file", "note", "a.mp3", "pre", "post"
NameFile == <<102, 105, 108, 101>>
NameNote == <<110, 111, 116, 101>>
NameAMp3 == <<97, 46, 109, 112, 51>>
NamePre == <<112, 114, 101>>
NamePost == <<112, 111, 115, 116>>

Part(header, hdrOk, name, hasFilename, filename, sep, payload, textOk) ==
    [header |-> header, hdrOk |-> hdrOk, name |-> name,
     hasFilename |-> hasFilename, filename |-> filename,
     sep |-> sep, payload |-> payload, textOk |-> textOk]

FilePart(payload, textOk) ==
    Part(HdrFile, TRUE, NameFile, TRUE, NameAMp3, TRUE, payload, textOk)
NotePart(payload, textOk) ==
    Part(HdrNote, TRUE, NameNote, FALSE, <<>>, TRUE, payload, textOk)

PartLibrary ==
    { FilePart(<<97, 98>>, TRUE),                       \* "ab"
      FilePart(<<97, LF>>, TRUE),                       \* "a\n"
      FilePart(<<255, 0>>, FALSE),                      \* binary
      FilePart(<<>>, TRUE),                             \* empty
      NotePart(<<104, 105>>, TRUE),                     \* "hi"
      NotePart(<<120, CR, LF>>, TRUE),                  \* "x\r\n"
      NotePart(<<255>>, FALSE),                         \* not UTF-8
      Part(HdrFilePlain, TRUE, NameFile, FALSE, <<>>, TRUE, <<118>>, TRUE),
      Part(HdrNote, TRUE, NameNote, FALSE, <<>>, FALSE, <<110>>, TRUE),
      Part(HdrFile, TRUE, NameFile, TRUE, NameAMp3, FALSE, <<102>>, TRUE),
      Part(HdrOther, TRUE, <<>>, FALSE, <<>>, TRUE, <<111>>, TRUE),
      Part(HdrUndecodable, FALSE, NameNote, FALSE, <<>>, TRUE, <<117>>, TRUE),
      Part(HdrParam, TRUE, NameFile, TRUE, NameAMp3, TRUE, <<113>>, TRUE) }

\* The bytes of a part between two delimiters.
PartBytes(p) ==
    CRLF \o p.header \o (IF p.sep THEN BlankLine ELSE CRLF) \o p.payload \o CRLF

\* A preamble that would decode to a field were it iterated:
\* '\r\nContent-Disposition: form-data; name="pre"\r\n\r\np\r\n'
PrePart == <<13, 10, 67, 111, 110, 116, 101, 110, 116, 45, 68, 105, 115,
             112, 111, 115, 105, 116, 105, 111, 110, 58, 32, 102, 111, 114,
             109, 45, 100, 97, 116, 97, 59, 32, 110, 97, 109, 101, 61, 34,
             112, 114, 101, 34, 13, 10, 13, 10, 112, 13, 10>>
\* '--B--'
Closing == <<45, 45, 66, 45, 45>>
\* '--B--\r\nContent-Disposition: form-data; name="post"\r\n\r\ne': a closing
\* fragment that would decode to a field were it iterated.
ClosingEpilogue == <<45, 45, 66, 45, 45, 13, 10, 67, 111, 110, 116, 101,
                     110, 116, 45, 68, 105, 115, 112, 111, 115, 105, 116,
                     105, 111, 110, 58, 32, 102, 111, 114, 109, 45, 100, 97,
                     116, 97, 59, 32, 110, 97, 109, 101, 61, 34, 112, 111,
                     115, 116, 34, 13, 10, 13, 10, 101>>

\* [pre, close]: what stands before the first delimiter and from the
\* closing delimiter on (close = <<>>: the closing delimiter is missing).
Framings ==
    { [pre |-> <<>>, close |-> Closing],
      [pre |-> PrePart, close |-> Closing],
      [pre |-> PrePart, close |-> ClosingEpilogue],
      [pre |-> <<>>, close |-> <<>>] }

\* 'multipart/form-data'
CtPlain == <<109, 117, 108, 116, 105, 112, 97, 114, 116, 47, 102, 111, 114,
             109, 45, 100, 97, 116, 97>>
\* '; boundary=', '; charset=utf-8'
CtBoundaryParam == <<59, 32, 98, 111, 117, 110, 100, 97, 114, 121, 61>>
CtCharsetParam == <<59, 32, 99, 104, 97, 114, 115, 101, 116, 61, 117, 116,
                    102, 45, 56>>

\* [str, boundary]: the header value and the boundary token it was written
\* to carry (<<>>: none).
ContentTypeB == [str |-> CtPlain \o CtBoundaryParam \o <<66>>, boundary |-> <<66>>]
\* 'multipart/form-data; boundary=\ud800': a boundary that is a lone
\* surrogate, which a str can hold and UTF-8 cannot encode.
ContentTypeSurrogate ==
    [str |-> CtPlain \o CtBoundaryParam \o <<55296>>, boundary |-> <<55296>>]
ContentTypes ==
    { ContentTypeB,
      ContentTypeSurrogate,
      [str |-> CtPlain \o CtBoundaryParam \o <<66>> \o CtCharsetParam,
       boundary |-> <<66>>],
      [str |-> CtPlain, boundary |-> <<>>],
      [str |-> CtPlain \o CtBoundaryParam, boundary |-> <<>>] }

RECURSIVE Concat(_)
Concat(ss) == IF ss = <<>> THEN <<>> ELSE Head(ss) \o Concat(Tail(ss))

BuildBody(pre, parts, close) ==
    pre \o Concat([i \in 1..Len(parts) |-> Delimiter \o PartBytes(parts[i])])
        \o close

\* The bytes a file payload is drawn from: CR, LF, '-', 'B' and a byte that
\* is no UTF-8.
PayloadBytes == {CR, LF, 45, 66, 255}

\* Requests of several parts, and requests of one file part with any payload.
Inputs ==
    { [ct |-> c, pre |-> f.pre, parts |-> ps, close |-> f.close]
        : c \in ContentTypes, f \in Framings,
          ps \in BoundedSeq(PartLibrary, MaxParts) }
    \cup
    { [ct |-> ContentTypeB, pre |-> <<>>,
       parts |-> <<FilePart(P, 255 \notin {P[i] : i \in DOMAIN P})>>,
       close |-> Closing] : P \in BoundedSeq(PayloadBytes, MaxPayloadLen) }

---------------------------------------------------------------------------
VARIABLES
    \* one call of parse_multipart_form_data
    input,          \* how the request was written (see Inputs)
    body,           \* the bytes given to parse_multipart_form_data
    content_type,   \* the str given to parse_multipart_form_data
    called,         \* whether parse_multipart_form_data has returned or raised
    result,         \* [raised, error, fields] once called
    \* one invocation of a handler
    handler,        \* "upload", "polly", or "none" outside an invocation
    event,          \* the event the handler is invoked with
    pc,             \* where the invocation stands
    fields,         \* UploadFunction.lambda_handler: the decoded mapping
    file_content,   \* UploadFunction.lambda_handler: fields['file']['content']
    file_name,      \* UploadFunction.lambda_handler: fields['file']['filename']
    s3_file_key,    \* UploadFunction.lambda_handler: the generated key
    input_bucket,   \* the objects of os.environ['INPUT_BUCKET']: key -> bytes
    table,          \* the items of the DynamoDB table
    output_bucket,  \* the keys of the speech handler's output bucket
    response,       \* what the handler returned
    calls           \* how often each external call was made, and how often
                    \* the handler returned

decoderVars == <<input, body, content_type, called, result>>
handlerVars == <<handler, event, pc, fields, file_content, file_name,
                 s3_file_key, input_bucket, table, output_bucket, response,
                 calls>>
vars == <<decoderVars, handlerVars>>

NoResult == [raised |-> FALSE, error |-> "", fields |-> <<>>]
NoResponse == [statusCode |-> 0, error |-> "", file_key |-> ""]
NoCalls == [put_object |-> 0, put_item |-> 0, synthesize_speech |-> 0,
            returned |-> 0]
NoEvent == [kind |-> "none"]

\* No handler is invoked.
HandlerIdle ==
    /\ handler = "none"
    /\ event = NoEvent
    /\ pc = "done"
    /\ fields = <<>>
    /\ file_content = <<>>
    /\ file_name = <<>>
    /\ s3_file_key = ""
    /\ input_bucket = <<>>
    /\ table = {}
    /\ output_bucket = {}
    /\ response = NoResponse
    /\ calls = NoCalls

InitDecode ==
    /\ input \in Inputs
    /\ body = BuildBody(input.pre, input.parts, input.close)
    /\ content_type = input.ct.str
    /\ called = FALSE
    /\ result = NoResult
    /\ HandlerIdle

\* One call of parse_multipart_form_data(body, content_type).
Decode ==
    /\ ~called
    /\ called' = TRUE
    /\ result' = parse_multipart_form_data(body, content_type)
    /\ UNCHANGED <<input, body, content_type, handlerVars>>

NextDecode == Decode

SpecDecode == InitDecode /\ [][NextDecode]_vars

---------------------------------------------------------------------------
(* What a request was written to be, read from `input` (never from the    *)
(* decoder).                                                               *)

\* The Content-Type carries the boundary the body was written with.
BoundaryGiven == input.ct.boundary = <<66>>
\* The Content-Type carries a boundary, and one that UTF-8 can encode (it
\* holds no surrogate).
BoundaryCarried == input.ct.boundary # <<>>
BoundaryEncodable ==
    \A i \in DOMAIN input.ct.boundary :
        input.ct.boundary[i] < 55296 \/ input.ct.boundary[i] > 57343
\* The closing delimiter is there.
Closed == input.close # <<>>
\* No payload holds the delimiter.
Clean == \A i \in DOMAIN input.parts :
            Find(input.parts[i].payload, Delimiter, 1) = 0
\* The part fails: no blank line, or a header block or a text payload that
\* is no UTF-8.
Fails(p) == ~p.sep \/ ~p.hdrOk \/ (~p.hasFilename /\ ~p.textOk)
\* The part is one that contributes a field.
Contributes(p) == ~Fails(p) /\ p.name # <<>>
\* The index of the last contributing part named n (0: none).
LastNamed(n) ==
    LET idx == {i \in DOMAIN input.parts :
                   input.parts[i].name = n /\ Contributes(input.parts[i])}
    IN  IF idx = {} THEN 0 ELSE CHOOSE i \in idx : \A j \in idx : j <= i
\* What the decoder returns for part p sent alone.
Alone(p) ==
    parse_multipart_form_data(BuildBody(<<>>, <<p>>, Closing), ContentTypeB.str)
PartNames == {input.parts[i].name : i \in DOMAIN input.parts} \ {<<>>}

\* C1: with a content_type that holds no 'boundary=' the decoder raises and
\* returns no mapping, whatever the body.
C1_MissingBoundaryRaises ==
    (called /\ Find(content_type, BoundaryLit, 1) = 0)
        => (result.raised /\ result.error = "ValueError"
            /\ DOMAIN result.fields = {})

C1_Witness ==
    /\ called
    /\ Find(content_type, BoundaryLit, 1) = 0
    /\ Len(input.parts) = 2
    /\ \A i \in DOMAIN input.parts : Contributes(input.parts[i])
    /\ Closed
    /\ result.raised

\* C2 as stated: with a boundary in content_type the decoder never raises,
\* whatever the body; a failing part is skipped and every other part is
\* still decoded.
C2_NeverRaisesWithBoundary ==
    (called /\ BoundaryCarried) =>
        /\ ~result.raised
        /\ (BoundaryGiven /\ Closed /\ Clean) =>
              /\ \A i \in DOMAIN input.parts :
                    Contributes(input.parts[i])
                        => input.parts[i].name \in DOMAIN result.fields
              /\ \A i, j \in DOMAIN input.parts :
                    (/\ Len(input.parts) = 2
                     /\ i # j
                     /\ Contributes(input.parts[i])
                     /\ ~input.parts[j].sep)
                    => /\ DOMAIN result.fields = {input.parts[i].name}
                       /\ result.fields[input.parts[i].name]
                            = Alone(input.parts[i]).fields[input.parts[i].name]

\* C2: with a boundary in content_type that UTF-8 can encode the decoder
\* never raises, a failing part is skipped and every other part is still
\* decoded; a body of one well-formed part and one part without the blank
\* line, in either order, decodes to exactly the well-formed part's entry.
\* With a boundary that UTF-8 cannot encode the decoder raises
\* UnicodeEncodeError before any part is read, and returns no mapping.
C2_PartFailuresAreSkipped ==
    /\ (called /\ BoundaryCarried /\ ~BoundaryEncodable) =>
          /\ result.raised
          /\ result.error = "UnicodeEncodeError"
          /\ DOMAIN result.fields = {}
    /\ (called /\ BoundaryCarried /\ BoundaryEncodable) =>
           /\ ~result.raised
           /\ (BoundaryGiven /\ Closed /\ Clean) =>
                 /\ \A i \in DOMAIN input.parts :
                       Contributes(input.parts[i])
                           => input.parts[i].name \in DOMAIN result.fields
                 /\ \A i, j \in DOMAIN input.parts :
                       (/\ Len(input.parts) = 2
                        /\ i # j
                        /\ Contributes(input.parts[i])
                        /\ ~input.parts[j].sep)
                       => /\ DOMAIN result.fields = {input.parts[i].name}
                          /\ result.fields[input.parts[i].name]
                               = Alone(input.parts[i]).fields[input.parts[i].name]

C2_Witness ==
    /\ called /\ BoundaryGiven /\ Closed
    /\ Len(input.parts) = 2
    /\ ~input.parts[1].sep
    /\ Contributes(input.parts[2])
    /\ ~result.raised
    /\ DOMAIN result.fields = {input.parts[2].name}

\* C3: a part whose header block carries a filename attribute decodes to a
\* record with that filename, a part without one to a plain string.
C3_FilenameDecidesKind ==
    (called /\ BoundaryGiven /\ Closed /\ Clean) =>
        \A i \in DOMAIN input.parts :
            LET p == input.parts[i]
            IN  (Contributes(p) /\ LastNamed(p.name) = i) =>
                  /\ p.name \in DOMAIN result.fields
                  /\ p.hasFilename =>
                        /\ result.fields[p.name].kind = "file"
                        /\ result.fields[p.name].filename = p.filename
                  /\ ~p.hasFilename => result.fields[p.name].kind = "str"

\* C4: a body of K well-formed parts closed by '--B--' decodes to at most K
\* entries, one for the name of every part with a name, none for the
\* preamble and none for the closing fragment.
C4_OneEntryPerNamedPart ==
    (/\ called /\ BoundaryGiven /\ Closed /\ Clean
     /\ \A i \in DOMAIN input.parts : ~Fails(input.parts[i]))
    => /\ Cardinality(DOMAIN result.fields) <= Len(input.parts)
       /\ DOMAIN result.fields = PartNames

C4_Witness ==
    /\ called /\ BoundaryGiven
    /\ input.pre = PrePart
    /\ input.close = ClosingEpilogue
    /\ Len(input.parts) = 2
    /\ \A i \in DOMAIN input.parts : Contributes(input.parts[i])
    /\ input.parts[1].name # input.parts[2].name
    /\ DOMAIN result.fields = {NameFile, NameNote}

\* C5: of the parts that carry one name, the last one that is not skipped
\* gives the value returned under that name.
C5_LastOccurrenceWins ==
    (called /\ BoundaryGiven /\ Closed /\ Clean) =>
        \A n \in PartNames :
            LastNamed(n) # 0 =>
                /\ n \in DOMAIN result.fields
                /\ result.fields[n] = Alone(input.parts[LastNamed(n)]).fields[n]

C5_Witness ==
    /\ called /\ BoundaryGiven /\ Closed
    /\ Len(input.parts) = 2
    /\ input.parts[1] = FilePart(<<97, 98>>, TRUE)
    /\ input.parts[2].header = HdrFilePlain
    /\ result.fields[NameFile] = StrValue(<<118>>)

\* C6: no decoded string and no decoded file content ends in CR or LF.
C6_NoTrailingCRLF ==
    called =>
        \A n \in DOMAIN result.fields :
            LET c == result.fields[n].content
            IN  c = <<>> \/ c[Len(c)] \notin {CR, LF}

C6_Witness ==
    /\ called /\ BoundaryGiven /\ Closed
    /\ Len(input.parts) = 1
    /\ input.parts[1] = NotePart(<<120, CR, LF>>, TRUE)
    /\ result.fields[NameNote] = StrValue(<<120>>)

\* C7: a file payload P that does not hold '--B', sent as the one part of a
\* body, is returned unchanged as the content of the file record.
C7_FilePayloadRoundTrip ==
    (/\ called
     /\ input.ct = ContentTypeB /\ input.pre = <<>> /\ input.close = Closing
     /\ Len(input.parts) = 1
     /\ input.parts[1].header = HdrFile /\ input.parts[1].sep
     /\ Clean)
    => /\ DOMAIN result.fields = {NameFile}
       /\ result.fields[NameFile]
            = FileValue(NameAMp3, input.parts[1].payload)

---------------------------------------------------------------------------
(* UploadFunction.lambda_handler                                           *)

\* 'content-type', 'Content-Type', 'X-Trace'
KeyContentTypeLower == <<99, 111, 110, 116, 101, 110, 116, 45, 116, 121,
                         112, 101>>
KeyContentType == <<67, 111, 110, 116, 101, 110, 116, 45, 84, 121, 112, 101>>
KeyTrace == <<88, 45, 84, 114, 97, 99, 101>>

\* str.lower() of a str of ASCII characters.
Lower(k) == [i \in DOMAIN k |-> IF k[i] >= 65 /\ k[i] <= 90 THEN k[i] + 32
                                ELSE k[i]]

\* {k.lower(): v for k, v in event['headers'].items()}.get(key): the value of
\* the last item whose lowered key is key; [found, value].
HeadersGet(items, key) ==
    LET idx == {i \in DOMAIN items : Lower(items[i][1]) = key}
        last == CHOOSE i \in idx : \A j \in idx : j <= i
    IN  IF idx = {} THEN [found |-> FALSE, value |-> <<>>]
        ELSE [found |-> TRUE, value |-> items[last][2]]

\* Lines 72-80 of lambda_handler: the body and the Content-Type are read.
\* [ok, error, body, content_type]; ok = FALSE is an exception whose str()
\* is error (for a UnicodeEncodeError and a TypeError, whose texts vary with
\* the interpreter, error is the name of the exception).
ReadRequest(ev) ==
    LET ct == HeadersGet(ev.headers, KeyContentTypeLower)
        failed(error) == [ok |-> FALSE, error |-> error, body |-> <<>>,
                          content_type |-> <<>>]
    IN  IF ~ev.hasBody THEN failed("'body'")
        ELSE IF ~encode(ev.body).ok THEN failed("UnicodeEncodeError")
        ELSE IF ~ev.hasHeaders THEN failed("'headers'")
        ELSE IF ~ct.found \/ ct.value = <<>>
             THEN failed("Missing 'Content-Type' header.")
        ELSE [ok |-> TRUE, error |-> "", body |-> encode(ev.body).bytes,
              content_type |-> ct.value]

Failed(error) ==
    [ok |-> FALSE, error |-> error, fields |-> <<>>,
     file_content |-> <<>>, file_name |-> <<>>]

\* A variant of ExtractFile without the check of line 93.
ExtractFileWithoutEmptyCheck(parsed) ==
    LET file_field == parsed.fields[<<102, 105, 108, 101>>]
    IN  IF parsed.raised
        THEN Failed(IF parsed.error = "ValueError"
                    THEN "Invalid Content-Type header: missing boundary"
                    ELSE parsed.error)
        ELSE IF <<102, 105, 108, 101>> \notin DOMAIN parsed.fields
             THEN Failed("Missing file in the request.")
        ELSE IF file_field.kind # "file" THEN Failed("TypeError")
        ELSE [ok |-> TRUE, error |-> "", fields |-> parsed.fields,
              file_content |-> file_field.content,
              file_name |-> file_field.filename]

\* Lines 82-98 of lambda_handler, given what parse_multipart_form_data did
\* (parsed: [raised, error, fields]): an exception of the decoder goes to the
\* except clause, otherwise the file is taken from the decoded mapping.
\* [ok, error, fields, file_content, file_name].
ExtractFile(parsed) ==
    LET file_field == parsed.fields[<<102, 105, 108, 101>>]
    IN  IF parsed.raised
        THEN Failed(IF parsed.error = "ValueError"
                    THEN "Invalid Content-Type header: missing boundary"
                    ELSE parsed.error)
        ELSE IF <<102, 105, 108, 101>> \notin DOMAIN parsed.fields
             THEN Failed("Missing file in the request.")
        ELSE IF file_field.kind # "file" THEN Failed("TypeError")
        ELSE IF file_field.content = <<>> THEN Failed("File content is empty.")
        ELSE [ok |-> TRUE, error |-> "", fields |-> parsed.fields,
              file_content |-> file_field.content,
              file_name |-> file_field.filename]

\* The item log_upload_metadata writes (its upload_time, the time of the
\* call, is left out).
Item(file_key, original_filename) ==
    [file_key |-> file_key, original_filename |-> original_filename,
     status |-> "uploaded", stage |-> "upload"]

\* A variant of log_upload_metadata without its try/except.
LogWithoutExcept(file_key, original_filename, items, put_item_ok) ==
    [raised |-> ~put_item_ok,
     table |-> IF put_item_ok
               THEN items \cup {Item(file_key, original_filename)}
               ELSE items]

\* log_upload_metadata(file_key, original_filename) on a table holding
\* `items`, when table.put_item succeeds (put_item_ok) or raises.
\* [raised, table]: whether the call raises, and the table after it.
log_upload_metadata(file_key, original_filename, items, put_item_ok) ==
    [raised |-> FALSE,
     table |-> IF put_item_ok
               THEN items \cup {Item(file_key, original_filename)}
               ELSE items]

\* The except clause of lines 134-139.
UploadError(error) == [statusCode |-> 500, error |-> error, file_key |-> ""]

\* The keys f"{timestamp}_{unique_id}.mp3" can come to.
FileKeys == {"20240101T000000Z_1a2b.mp3", "20240101T000001Z_3c4d.mp3"}

\* The parts of the bodies the upload handler is invoked with.  event['body']
\* is a str: the values below are code points, and 233 is one that encodes to
\* two bytes.
UploadParts ==
    { FilePart(<<97, 98>>, TRUE),
      FilePart(<<233, LF>>, TRUE),
      FilePart(<<>>, TRUE),
      NotePart(<<104, 105>>, TRUE),
      Part(HdrFilePlain, TRUE, NameFile, FALSE, <<>>, TRUE, <<118>>, TRUE) }

HeaderLists ==
    { <<>>,
      << <<KeyContentType, ContentTypeB.str>> >>,
      << <<KeyContentTypeLower, ContentTypeB.str>> >>,
      << <<KeyTrace, <<49>>>>, <<KeyContentType, ContentTypeB.str>> >>,
      << <<KeyContentType, CtPlain>> >>,
      << <<KeyContentType, ContentTypeSurrogate.str>> >>,
      << <<KeyContentType, <<>>>> >>,
      << <<KeyTrace, <<49>>>> >> }

\* The events of the upload handler: a str body and a headers mapping, an
\* event without 'body', one without 'headers', and a body that holds a lone
\* surrogate (55296), which str.encode() rejects.
UploadEvents ==
    { [kind |-> "upload", hasBody |-> TRUE, hasHeaders |-> TRUE,
       body |-> BuildBody(<<>>, ps, Closing), headers |-> h, parts |-> ps]
        : ps \in BoundedSeq(UploadParts, MaxParts), h \in HeaderLists }
    \cup
    { [kind |-> "upload", hasBody |-> FALSE, hasHeaders |-> TRUE,
       body |-> <<>>, parts |-> <<>>,
       headers |-> << <<KeyContentType, ContentTypeB.str>> >>],
      [kind |-> "upload", hasBody |-> TRUE, hasHeaders |-> FALSE,
       body |-> Closing, headers |-> <<>>, parts |-> <<>>],
      [kind |-> "upload", hasBody |-> TRUE, hasHeaders |-> TRUE,
       body |-> <<55296>>, parts |-> <<>>,
       headers |-> << <<KeyContentType, ContentTypeB.str>> >>] }

\* Lines 72-80.
UploadReadRequest ==
    /\ handler = "upload" /\ pc = "read_request"
    /\ \E r \in {ReadRequest(event)} :
           IF r.ok
           THEN /\ body' = r.body
                /\ content_type' = r.content_type
                /\ pc' = "parse"
                /\ UNCHANGED <<response, calls>>
           ELSE /\ response' = UploadError(r.error)
                /\ calls' = [calls EXCEPT !.returned = @ + 1]
                /\ pc' = "done"
                /\ UNCHANGED <<body, content_type>>
    /\ UNCHANGED <<handler, event, fields, file_content, file_name,
                   s3_file_key, input_bucket, table, output_bucket,
                   input, called, result>>

\* Lines 82-98.
UploadParse ==
    /\ handler = "upload" /\ pc = "parse"
    /\ \E parsed \in {parse_multipart_form_data(body, content_type)} :
         \E v \in {ExtractFile(parsed)} :
           IF v.ok
           THEN /\ fields' = v.fields
                /\ file_content' = v.file_content
                /\ file_name' = v.file_name
                /\ pc' = "put_object"
                /\ UNCHANGED <<response, calls>>
           ELSE /\ response' = UploadError(v.error)
                /\ calls' = [calls EXCEPT !.returned = @ + 1]
                /\ pc' = "done"
                /\ UNCHANGED <<fields, file_content, file_name>>
    /\ UNCHANGED <<handler, event, s3_file_key, input_bucket, table,
                   output_bucket, decoderVars>>

\* Lines 100-116: the key is generated, os.environ['INPUT_BUCKET'] is read
\* (a KeyError when it is not set, before anything is called) and
\* s3.put_object is called; it returns, or it raises and no object is stored.
UploadPutObject ==
    /\ handler = "upload" /\ pc = "put_object"
    /\ \E key \in FileKeys, outcome \in {"returns", "raises", "no_bucket"} :
          /\ s3_file_key' = key
          /\ calls' = [calls EXCEPT
                         !.put_object = IF outcome = "no_bucket" THEN @
                                        ELSE @ + 1,
                         !.returned = IF outcome = "returns" THEN @
                                      ELSE @ + 1]
          /\ IF outcome = "returns"
             THEN /\ input_bucket' = Put(input_bucket, key, file_content)
                  /\ pc' = "log_metadata"
                  /\ UNCHANGED response
             ELSE /\ response' = UploadError(IF outcome = "raises"
                                             THEN "put_object"
                                             ELSE "'INPUT_BUCKET'")
                  /\ pc' = "done"
                  /\ UNCHANGED input_bucket
    /\ UNCHANGED <<handler, event, fields, file_content, file_name, table,
                   output_bucket, decoderVars>>

\* Line 119: log_upload_metadata(s3_file_key, file_name); table.put_item
\* returns or raises.
UploadLogMetadata ==
    /\ handler = "upload" /\ pc = "log_metadata"
    /\ \E put_item_ok \in BOOLEAN :
        \E r \in {log_upload_metadata(s3_file_key, file_name, table,
                                      put_item_ok)} :
              /\ table' = r.table
              /\ IF r.raised
                 THEN /\ response' = UploadError("put_item")
                      /\ calls' = [calls EXCEPT !.put_item = @ + 1,
                                                !.returned = @ + 1]
                      /\ pc' = "done"
                 ELSE /\ calls' = [calls EXCEPT !.put_item = @ + 1]
                      /\ pc' = "return"
                      /\ UNCHANGED response
    /\ UNCHANGED <<handler, event, fields, file_content, file_name,
                   s3_file_key, input_bucket, output_bucket, decoderVars>>

\* Lines 121-132.
UploadReturn ==
    /\ handler = "upload" /\ pc = "return"
    /\ response' = [statusCode |-> 200, error |-> "", file_key |-> s3_file_key]
    /\ calls' = [calls EXCEPT !.returned = @ + 1]
    /\ pc' = "done"
    /\ UNCHANGED <<handler, event, fields, file_content, file_name,
                   s3_file_key, input_bucket, table, output_bucket,
                   decoderVars>>

---------------------------------------------------------------------------
(* PollyFunction.lambda_handler                                            *)

EventKeys == {"translated_text", "bucket", "output_file"}

\* The events of the speech handler: the keys the event holds, and the value
\* of 'output_file' ("" stands for a value that is false in Python).
PollyEvents ==
    [kind : {"polly"}, keys : SUBSET EventKeys,
     output_file : {"", "speech.mp3"}]

\* f"{uuid.uuid4()}_speech.mp3"
GeneratedNames == {"0f8fad5b-d9cb-469f-a165-70867728950e_speech.mp3"}

\* Lines 9-21: the keys are read in order, then polly.synthesize_speech is
\* called: it raises, or returns a response with or without 'AudioStream'.
PollySynthesize ==
    /\ handler = "polly" /\ pc = "synthesize"
    /\ IF EventKeys \subseteq event.keys
       THEN \E outcome \in {"audio", "no_audio", "raises"} :
              /\ calls' = [calls EXCEPT
                             !.synthesize_speech = @ + 1,
                             !.returned = IF outcome = "audio" THEN @ ELSE @ + 1]
              /\ IF outcome = "audio"
                 THEN /\ pc' = "put_object"
                      /\ UNCHANGED response
                 ELSE /\ pc' = "done"
                      /\ response' =
                           [statusCode |-> 500, file_key |-> "",
                            error |-> IF outcome = "raises"
                                      THEN "synthesize_speech"
                                      ELSE "No AudioStream found in Polly response."]
       ELSE /\ response' =
                 [statusCode |-> 400, file_key |-> "",
                  error |-> IF "translated_text" \notin event.keys
                            THEN "Missing key: 'translated_text'"
                            ELSE IF "bucket" \notin event.keys
                            THEN "Missing key: 'bucket'"
                            ELSE "Missing key: 'output_file'"]
            /\ calls' = [calls EXCEPT !.returned = @ + 1]
            /\ pc' = "done"
    /\ UNCHANGED <<handler, event, fields, file_content, file_name,
                   s3_file_key, input_bucket, table, output_bucket,
                   decoderVars>>

\* Lines 24-42: response['AudioStream'].read() is evaluated (line 28), then
\* s3.put_object is called on the output bucket under event['output_file']
\* or a generated name.  The read raises and put_object is never called, or
\* put_object returns, or put_object raises.
PollyPutObject ==
    /\ handler = "polly" /\ pc = "put_object"
    /\ \E outcome \in {"returns", "raises", "read_raises"},
          generated \in GeneratedNames :
          LET output_file_name == IF event.output_file # ""
                                  THEN event.output_file ELSE generated
          IN  /\ calls' = [calls EXCEPT
                             !.put_object = IF outcome = "read_raises" THEN @
                                            ELSE @ + 1,
                             !.returned = @ + 1]
              /\ pc' = "done"
              /\ IF outcome = "returns"
                 THEN /\ output_bucket' = output_bucket \cup {output_file_name}
                      /\ response' = [statusCode |-> 200, error |-> "",
                                      file_key |-> output_file_name]
                 ELSE /\ UNCHANGED output_bucket
                      /\ response' = [statusCode |-> 500, file_key |-> "",
                                      error |-> IF outcome = "raises"
                                                THEN "put_object"
                                                ELSE "read"]
    /\ UNCHANGED <<handler, event, fields, file_content, file_name,
                   s3_file_key, input_bucket, table, decoderVars>>

---------------------------------------------------------------------------
(* One invocation of either handler.                                       *)

Init ==
    /\ input = [ct |-> ContentTypeB, pre |-> <<>>, parts |-> <<>>,
                close |-> <<>>]
    /\ body = <<>>
    /\ content_type = <<>>
    /\ called = FALSE
    /\ result = NoResult
    /\ event \in UploadEvents \cup PollyEvents
    /\ handler = event.kind
    /\ pc = IF event.kind = "upload" THEN "read_request" ELSE "synthesize"
    /\ fields = <<>>
    /\ file_content = <<>>
    /\ file_name = <<>>
    /\ s3_file_key = ""
    /\ input_bucket = <<>>
    /\ table = {}
    /\ output_bucket = {}
    /\ response = NoResponse
    /\ calls = NoCalls

Next ==
    \/ UploadReadRequest
    \/ UploadParse
    \/ UploadPutObject
    \/ UploadLogMetadata
    \/ UploadReturn
    \/ PollySynthesize
    \/ PollyPutObject

Spec == Init /\ [][Next]_vars

---------------------------------------------------------------------------
(* Properties of the handlers.                                             *)

\* s3.put_object of the upload handler returned: the object is stored.
PutSucceeded == s3_file_key \in DOMAIN input_bucket

\* The failures of a missing parameter: in the upload handler the four
\* ValueErrors of lines 19, 80, 87 and 94, in the speech handler an event
\* that lacks a key.
MissingParameter ==
    \/ /\ handler = "upload"
       /\ response.error \in {"Missing 'Content-Type' header.",
                              "Invalid Content-Type header: missing boundary",
                              "Missing file in the request.",
                              "File content is empty."}
    \/ /\ handler = "polly"
       /\ ~(EventKeys \subseteq event.keys)

\* C8: a missing-parameter failure is answered with a 4xx status, in the
\* upload handler and in the speech handler.
C8_MissingParameterIsClientError ==
    (pc = "done" /\ handler # "none" /\ MissingParameter)
        => (response.statusCode >= 400 /\ response.statusCode <= 499)

\* C9: once the object is stored the upload handler answers 200 with the
\* stored key, whether table.put_item returns or raises, and the object
\* stays stored.
C9_MetadataFailureNotPropagated ==
    (handler = "upload" /\ PutSucceeded) =>
        /\ input_bucket[s3_file_key] = file_content
        /\ pc \in {"log_metadata", "return", "done"}
        /\ calls.put_item = 1 => pc \in {"return", "done"}
        /\ pc = "done" =>
              response = [statusCode |-> 200, error |-> "",
                          file_key |-> s3_file_key]

C9_Witness ==
    /\ handler = "upload" /\ pc = "done"
    /\ PutSucceeded
    /\ calls.put_item = 1
    /\ table = {}
    /\ response.statusCode = 200
    /\ response.file_key = s3_file_key

UploadOrdering ==
    handler = "upload" =>
        /\ calls.put_object <= 1 /\ calls.put_item <= 1 /\ calls.returned <= 1
        /\ calls.put_object = 1 =>
              /\ <<102, 105, 108, 101>> \in DOMAIN fields
              /\ fields[<<102, 105, 108, 101>>].kind = "file"
              /\ fields[<<102, 105, 108, 101>>].content = file_content
              /\ file_content # <<>>
        /\ calls.put_item = 1 => PutSucceeded
        /\ response.statusCode = 200 => PutSucceeded
        /\ (pc = "done") <=> (calls.returned = 1)
        /\ pc = "done" => response.statusCode \in {200, 500}
        /\ (pc = "done" /\ ~PutSucceeded) =>
              /\ response.statusCode = 500
              /\ DOMAIN input_bucket = {}
              /\ table = {}
              /\ calls.put_item = 0

\* How far an invocation of the upload handler has come.
Rank(at) ==
    CASE at = "read_request" -> 1
      [] at = "parse" -> 2
      [] at = "put_object" -> 3
      [] at = "log_metadata" -> 4
      [] at = "return" -> 5
      [] OTHER -> 6

\* C10: in the upload handler put_object is called at most once and only
\* with the non-empty content of a decoded 'file' record, put_item at most
\* once and only after put_object returned, 200 is answered only after
\* put_object returned, an invocation that ends without put_object having
\* returned answers an error and leaves no object and no item, and every
\* step takes the invocation forward, to the one response that ends it.
C10_UploadOrdering ==
    /\ []UploadOrdering
    /\ [][handler = "upload" =>
            /\ Rank(pc') > Rank(pc)
            /\ calls'.put_object >= calls.put_object
            /\ calls'.put_item >= calls.put_item
            /\ calls'.returned = IF pc' = "done" THEN 1 ELSE 0]_vars

C10_Witness ==
    /\ handler = "upload" /\ pc = "done"
    /\ calls = [put_object |-> 1, put_item |-> 1, synthesize_speech |-> 0,
                returned |-> 1]
    /\ response.statusCode = 200
    /\ table = {Item(s3_file_key, NameAMp3)}
    /\ Len(event.parts) = 2

=============================================================================
